---- MODULE Spec2Model ----
(***************************************************************************)
(* State-machine model of src/index.tsx: the Experience focus controller,  *)
(* the Fireworks effect and its timers, the App mode signal and photo      *)
(* upload list, the per-frame progress interpolators, the image processing *)
(* of an upload, the foliage generator, the ornaments' rotation and the    *)
(* music button.  Each part has its own variables and specification.       *)
(*                                                                         *)
(* A React state update and the re-render (with its effects) that follows  *)
(* it are one step: every handler below ends with the render of the        *)
(* component it updates.  A value a handler reads from its closure is the  *)
(* value of the render in which the handler was created; the only closure  *)
(* that outlives a render is the one of handleUpload, across its await.    *)
(* Time is counted in milliseconds and advances in steps of TickMs.  A     *)
(* setTimeout callback runs at some step after its delay has elapsed: the  *)
(* reset callbacks in the order they were scheduled, and no order is       *)
(* assumed between a reset callback and the expiry callback.               *)
(***************************************************************************)
EXTENDS Integers, Sequences, FiniteSets, TLC

\* ------------------------------------------------------------ constants
SlotCount == 9
MaxPhotos == 9
BurstCount == 3
ResetDelay == 100
ExpiryDelay == 2000
Lifetime == 1500
KFoliage == 2
KOrnament == 4
KPhoto == 3
Height == 20
NULL == -1

\* --------------------------------------------------------------- bounds
MaxTriggers == 2
MaxTimers == 2
MaxImages == 10
MaxBatch == 2
MaxFrames == 3
TickMs == 500
MaxCount == 120
MaxFiles == 4
OrnCount == 3
MaxSpeed == 2
MaxOrnFrames == 4

Slots == 0 .. (SlotCount - 1)
NoTimer == -1
AgeCap == Lifetime + TickMs

VARIABLES
    focusedIdx,      \* Experience: useState<number | null>
    fireworksActive, \* Experience: useState(false)
    resetTimers,     \* Experience: ms left on each pending reset timeout, oldest first
    slotFocused,     \* PhotoSystem: the isFocused prop rendered for each slot
    catcherMounted,  \* Experience: the click catcher mesh is rendered
    explosions,      \* Fireworks: ids of the bursts in the collection
    idRef,           \* Fireworks: idRef.current
    expiryTimer,     \* Fireworks: ms left on the pending expiry timeout, or NoTimer
    age,             \* FireworkInstance: Date.now() - startTime of each mounted burst
    visible,         \* FireworkInstance: ref.current.visible of each mounted burst
    mode,            \* App: useState(0)
    userPhotos,      \* App: useState<string[]>([])
    uploads,         \* App: handleUpload calls suspended at their await
    nextImg,         \* number of files handed to handleUpload so far
    frames,          \* frames rendered since mount
    progFoliage,     \* FoliageSystem: uProgress, numerator over 100^frames
    progOrnament,    \* OrnamentSystem: currentProgress, numerator over 100^frames
    progPhoto,       \* Polaroid: currentProgress, numerator over 100^frames
    mounted,         \* the component tree is mounted
    genCount,        \* generateFoliageData: count of the last call, 0 before it
    positionsTree,   \* generateFoliageData: y of each tree triple, times count
    imgNext,         \* number of files handed to processImageFile so far
    imgBatch,        \* processImageFile: what each file of the upload resolved with
    imgLive,         \* files whose object URL is created and not revoked
    imgPhotos,       \* the photo list: the file and the kind of each reference
    ornData,         \* OrnamentSystem: rotationSpeed of each instance, << >> before mount
    dummyRot,        \* OrnamentSystem: dummy.rotation.x (= dummy.rotation.y)
    ornAngle,        \* OrnamentSystem: the angle in the matrix last written per instance
    ornFrames,       \* OrnamentSystem: frames rendered
    playing,         \* BackgroundMusic: useState(false)
    audioPlaying     \* BackgroundMusic: the audio element is producing sound

expVars == <<focusedIdx, fireworksActive, resetTimers, slotFocused, catcherMounted>>
fireVars == <<explosions, idRef, expiryTimer, age, visible>>
appVars == <<mode, userPhotos, uploads, nextImg>>
animVars == <<frames, progFoliage, progOrnament, progPhoto>>
lifeVars == <<mounted>>
genVars == <<genCount, positionsTree>>
imgVars == <<imgNext, imgBatch, imgLive, imgPhotos>>
ornVars == <<ornData, dummyRot, ornAngle, ornFrames>>
musicVars == <<playing, audioPlaying>>
coreVars == <<expVars, fireVars, appVars, animVars>>
extVars == <<lifeVars, genVars, imgVars, ornVars, musicVars>>
vars == <<expVars, fireVars, appVars, animVars, extVars>>

\* -------------------------------------------------------------- helpers
Abs(x) == IF x < 0 THEN -x ELSE x
Min(a, b) == IF a < b THEN a ELSE b
Max(a, b) == IF a > b THEN a ELSE b
Scale(n) == 100 ^ n

\* ------------------------------------------------------------ rendering
IsFocusedAny(f, i) == f # NULL
IsFocused(f, i) == f = i

RenderSlots(f) == [i \in Slots |-> IsFocused(f, i)]

CatcherAlways(f) == TRUE
RenderCatcher(f) == f # NULL

\* ----------------------------------------------------------- Experience
NextFocusSticky(cur, idx) == IF cur = idx THEN NULL ELSE IF cur = NULL THEN idx ELSE cur
NextFocus(cur, idx) == IF cur = idx THEN NULL ELSE idx

FireworksEffectLevel(was, now) ==
    IF now
    THEN LET ids == idRef .. (idRef + BurstCount - 1)
         IN  /\ explosions' = ids
             /\ idRef' = idRef + BurstCount
             /\ expiryTimer' = ExpiryDelay
             /\ age' = [b \in ids |-> 0]
             /\ visible' = [b \in ids |-> TRUE]
    ELSE /\ expiryTimer' = NoTimer
         /\ UNCHANGED <<explosions, idRef, age, visible>>
\* The Fireworks effect for a render in which `active` went from was to now.
FireworksEffect(was, now) ==
    IF was = now
    THEN UNCHANGED fireVars
    ELSE IF now
         THEN LET ids == idRef .. (idRef + BurstCount - 1)
              IN  /\ explosions' = ids
                  /\ idRef' = idRef + BurstCount
                  /\ expiryTimer' = ExpiryDelay
                  /\ age' = [b \in ids |-> 0]
                  /\ visible' = [b \in ids |-> TRUE]
         ELSE /\ expiryTimer' = NoTimer
              /\ UNCHANGED <<explosions, idRef, age, visible>>

handlePhotoClick(idx) ==
    /\ mounted
    /\ focusedIdx' = NextFocus(focusedIdx, idx)
    /\ slotFocused' = RenderSlots(focusedIdx')
    /\ catcherMounted' = RenderCatcher(focusedIdx')
    /\ IF focusedIdx = idx
       THEN UNCHANGED <<fireworksActive, resetTimers, fireVars>>
       ELSE /\ Len(resetTimers) < MaxTimers
            /\ fireworksActive \/ idRef < BurstCount * MaxTriggers
            /\ fireworksActive' = TRUE
            /\ resetTimers' = Append(resetTimers, ResetDelay)
            /\ FireworksEffect(fireworksActive, TRUE)
    /\ UNCHANGED <<appVars, animVars>>
    /\ UNCHANGED extVars

handleMissed ==
    /\ mounted
    /\ catcherMounted
    /\ focusedIdx' = NULL
    /\ slotFocused' = RenderSlots(focusedIdx')
    /\ catcherMounted' = RenderCatcher(focusedIdx')
    /\ UNCHANGED <<fireworksActive, resetTimers, fireVars, appVars, animVars>>
    /\ UNCHANGED extVars

ResetFire ==
    /\ resetTimers # << >>
    /\ Head(resetTimers) = 0
    /\ resetTimers' = Tail(resetTimers)
    /\ fireworksActive' = FALSE
    /\ IF mounted THEN FireworksEffect(fireworksActive, FALSE)
                  ELSE UNCHANGED fireVars
    /\ UNCHANGED <<focusedIdx, slotFocused, catcherMounted, appVars, animVars>>
    /\ UNCHANGED extVars

\* ------------------------------------------------------------ Fireworks
ExpiryFire ==
    /\ expiryTimer = 0
    /\ expiryTimer' = NoTimer
    /\ explosions' = {}
    /\ age' = << >>
    /\ visible' = << >>
    /\ UNCHANGED <<idRef, expVars, appVars, animVars>>
    /\ UNCHANGED extVars

Tick ==
    /\ \/ expiryTimer > 0
       \/ \E i \in 1 .. Len(resetTimers) : resetTimers[i] > 0
       \/ \E b \in explosions : age[b] < AgeCap
    /\ resetTimers' = [i \in 1 .. Len(resetTimers) |-> Max(0, resetTimers[i] - TickMs)]
    /\ expiryTimer' = IF expiryTimer = NoTimer THEN NoTimer
                      ELSE Max(0, expiryTimer - TickMs)
    /\ age' = [b \in explosions |-> Min(AgeCap, age[b] + TickMs)]
    /\ UNCHANGED <<explosions, idRef, visible, appVars, animVars>>
    /\ UNCHANGED <<focusedIdx, fireworksActive, slotFocused, catcherMounted>>
    /\ UNCHANGED extVars

FireworkFrame ==
    /\ mounted
    /\ explosions # {}
    /\ visible' = [b \in explosions |->
                     IF age[b] > Lifetime THEN FALSE ELSE visible[b]]
    /\ UNCHANGED <<explosions, idRef, expiryTimer, age, expVars, appVars, animVars>>
    /\ UNCHANGED extVars

\* The tree is torn down: the Fireworks effect cleanup runs (clearTimeout of the
\* expiry timer) and the bursts unmount; Experience registers no cleanup, so
\* its reset timeouts stay scheduled.  The released state reads as initial.
Unmount ==
    /\ mounted
    /\ mounted' = FALSE
    /\ expiryTimer' = NoTimer
    /\ explosions' = {}
    /\ age' = << >>
    /\ visible' = << >>
    /\ focusedIdx' = NULL
    /\ fireworksActive' = FALSE
    /\ slotFocused' = [i \in Slots |-> FALSE]
    /\ catcherMounted' = FALSE
    /\ UNCHANGED <<resetTimers, idRef, appVars, animVars>>
    /\ UNCHANGED <<genVars, imgVars, ornVars, musicVars>>

\* ------------------------------------------------------------------ App
FlipUp(m) == m + 1
Flip(m) == IF m = 0 THEN 1 ELSE 0

ToggleRestart ==
    /\ mode' = Flip(mode)
    /\ frames' = 0
    /\ progFoliage' = 0
    /\ progOrnament' = 0
    /\ progPhoto' = 0
    /\ UNCHANGED <<userPhotos, uploads, nextImg, expVars, fireVars>>
    /\ UNCHANGED extVars
Toggle ==
    /\ mode' = Flip(mode)
    /\ UNCHANGED <<userPhotos, uploads, nextImg, expVars, fireVars, animVars>>
    /\ UNCHANGED extVars

KeepFirst(s, n) == IF Len(s) <= n THEN s ELSE SubSeq(s, 1, n)
KeepLast(s, n) == IF Len(s) <= n THEN s ELSE SubSeq(s, Len(s) - n + 1, Len(s))

\* handleUpload up to its await: n files are chosen while `mode` is rendered.
UploadStart(n) ==
    /\ nextImg + n <= MaxImages
    /\ IF n = 0
       THEN UNCHANGED <<uploads, nextImg>>
       ELSE /\ uploads' = uploads \cup
                 {[files |-> [i \in 1 .. n |-> nextImg + i], mode |-> mode]}
            /\ nextImg' = nextImg + n
    /\ UNCHANGED <<mode, userPhotos, expVars, fireVars, animVars>>
    /\ UNCHANGED extVars

\* An upload begun when no earlier upload is still processing its images.
UploadStartSeq(n) ==
    /\ uploads = {}
    /\ UploadStart(n)

\* handleUpload after its await: every image of the call has been processed.
UploadResolve(u) ==
    /\ u \in uploads
    /\ uploads' = uploads \ {u}
    /\ userPhotos' = KeepLast(userPhotos \o u.files, MaxPhotos)
    /\ mode' = IF u.mode = 0 THEN 1 ELSE mode
    /\ UNCHANGED <<nextImg, expVars, fireVars, animVars>>
    /\ UNCHANGED extVars

\* A second upload may begin while one upload is still processing its images.
UploadStartOverlap(n) ==
    /\ Cardinality(uploads) <= 1
    /\ UploadStart(n)

\* ----------------------------------------------------- processImageFile
\* handleUpload with the processing of each file spelled out.  Up to the
\* await: createObjectURL and img.src = url for each of the n chosen files.
ImgUploadStart(n) ==
    /\ DOMAIN imgBatch = {}
    /\ imgNext + n <= MaxFiles
    /\ LET fs == (imgNext + 1) .. (imgNext + n)
       IN  /\ imgBatch' = [f \in fs |-> "pending"]
           /\ imgLive' = imgLive \cup fs
    /\ imgNext' = imgNext + n
    /\ UNCHANGED <<imgPhotos, coreVars, lifeVars, genVars, ornVars, musicVars>>

\* img.onload: the canvas copy resolves the promise, or the object URL does
\* when no 2d context is to be had; then the object URL is revoked.
ImgOnload(f, ctx) ==
    /\ f \in DOMAIN imgBatch
    /\ imgBatch[f] = "pending"
    /\ imgBatch' = [imgBatch EXCEPT ![f] = IF ctx THEN "dataURL" ELSE "objectURL"]
    /\ imgLive' = imgLive \ {f}
    /\ UNCHANGED <<imgNext, imgPhotos, coreVars, lifeVars, genVars, ornVars, musicVars>>

\* img.onerror: the object URL resolves the promise and is then revoked.
ImgOnerror(f) ==
    /\ f \in DOMAIN imgBatch
    /\ imgBatch[f] = "pending"
    /\ imgBatch' = [imgBatch EXCEPT ![f] = "objectURL"]
    /\ imgLive' = imgLive \ {f}
    /\ UNCHANGED <<imgNext, imgPhotos, coreVars, lifeVars, genVars, ornVars, musicVars>>

\* The references Promise.all yields for the files lo..hi, in file order.
RECURSIVE Results(_, _)
Results(lo, hi) ==
    IF lo > hi THEN << >>
    ELSE <<[file |-> lo, kind |-> imgBatch[lo]]>> \o Results(lo + 1, hi)

\* handleUpload after its await: every promise of the call has resolved.
ImgAppend ==
    /\ DOMAIN imgBatch # {}
    /\ \A f \in DOMAIN imgBatch : imgBatch[f] # "pending"
    /\ LET lo == imgNext - Cardinality(DOMAIN imgBatch) + 1
       IN  imgPhotos' = KeepLast(imgPhotos \o Results(lo, imgNext), MaxPhotos)
    /\ imgBatch' = << >>
    /\ UNCHANGED <<imgNext, imgLive, coreVars, lifeVars, genVars, ornVars, musicVars>>

\* -------------------------------------------------- generateFoliageData
\* y = (i / count) * height - height / 2, kept exact as the numerator y * count.
TreeY(i, count) == Height * i - (Height \div 2) * count
generateFoliageData(count) == [j \in 1 .. count |-> TreeY(j - 1, count)]

\* FoliageSystem computes its particle data for a count of n.
FoliageData(n) ==
    /\ genCount' = n
    /\ positionsTree' = generateFoliageData(n)
    /\ UNCHANGED <<coreVars, lifeVars, imgVars, ornVars, musicVars>>

\* ------------------------------------------------------- OrnamentSystem
RECURSIVE SpeedSum(_, _)
SpeedSum(sp, i) == IF i = 0 THEN 0 ELSE SpeedSum(sp, i - 1) + sp[i]

\* The instance data is generated once, with a random rotationSpeed each.
OrnamentData(sp) ==
    /\ ornData = << >>
    /\ ornData' = sp
    /\ ornAngle' = [i \in 1 .. Len(sp) |-> 0]
    /\ UNCHANGED <<dummyRot, ornFrames, coreVars, lifeVars, genVars, imgVars, musicVars>>

\* useFrame: for each instance in turn, the one shared dummy object has the
\* instance's rotationSpeed added to its rotation and its matrix is written.
OrnamentFrame ==
    /\ ornData # << >>
    /\ ornFrames < MaxOrnFrames
    /\ ornAngle' = [i \in 1 .. Len(ornData) |-> dummyRot + SpeedSum(ornData, i)]
    /\ dummyRot' = dummyRot + SpeedSum(ornData, Len(ornData))
    /\ ornFrames' = ornFrames + 1
    /\ UNCHANGED <<ornData, coreVars, lifeVars, genVars, imgVars, musicVars>>

\* ------------------------------------------------------ BackgroundMusic
\* A click on the music button; ok tells whether play() starts playback or its
\* promise is rejected (the rejection is logged and changes nothing).
toggle(ok) ==
    /\ audioPlaying' = IF playing THEN FALSE ELSE ok
    /\ playing' = ~playing
    /\ UNCHANGED <<coreVars, lifeVars, genVars, imgVars, ornVars>>

\* ------------------------------------------------------------ animation
\* lerp(x, y, t) = (1 - t) * x + t * y with t = k / 100, on x = num / den; the
\* result is a numerator over 100 * den.  The arithmetic is exact: the rounding
\* of the 64-bit floats the code computes with is not modelled.
LerpSwapped(num, den, target, k) == (100 - k) * target * den + k * num
Lerp(num, den, target, k) == (100 - k) * num + k * target * den

Frame ==
    /\ frames < MaxFrames
    /\ frames' = frames + 1
    /\ progFoliage' = Lerp(progFoliage, Scale(frames), mode, KFoliage)
    /\ progOrnament' = Lerp(progOrnament, Scale(frames), mode, KOrnament)
    /\ progPhoto' = Lerp(progPhoto, Scale(frames), mode, KPhoto)
    /\ UNCHANGED <<expVars, fireVars, appVars>>
    /\ UNCHANGED extVars

\* ------------------------------------------------------- specifications
Init ==
    /\ focusedIdx = NULL
    /\ fireworksActive = FALSE
    /\ resetTimers = << >>
    /\ slotFocused = RenderSlots(NULL)
    /\ catcherMounted = RenderCatcher(NULL)
    /\ explosions = {}
    /\ idRef = 0
    /\ expiryTimer = NoTimer
    /\ age = << >>
    /\ visible = << >>
    /\ mode = 0
    /\ userPhotos = << >>
    /\ uploads = {}
    /\ nextImg = 0
    /\ frames = 0
    /\ progFoliage = 0
    /\ progOrnament = 0
    /\ progPhoto = 0
    /\ mounted = TRUE
    /\ genCount = 0
    /\ positionsTree = << >>
    /\ imgNext = 0
    /\ imgBatch = << >>
    /\ imgLive = {}
    /\ imgPhotos = << >>
    /\ ornData = << >>
    /\ dummyRot = 0
    /\ ornAngle = << >>
    /\ ornFrames = 0
    /\ playing = FALSE
    /\ audioPlaying = FALSE

Next ==
    \/ \E i \in Slots : handlePhotoClick(i)
    \/ handleMissed
    \/ ResetFire
    \/ ExpiryFire
    \/ Tick
    \/ FireworkFrame
    \/ Toggle
    \/ \E n \in 0 .. MaxBatch : UploadStartSeq(n)
    \/ \E u \in uploads : UploadResolve(u)

Spec == Init /\ [][Next]_vars

\* The Experience and Fireworks components alone, with the clock.
NextFire ==
    \/ \E i \in Slots : handlePhotoClick(i)
    \/ handleMissed
    \/ ResetFire
    \/ ExpiryFire
    \/ Tick
    \/ FireworkFrame

SpecFire == Init /\ [][NextFire]_vars

\* Timer callbacks that are due run, and time passes; the user may stop clicking.
SpecFireLive ==
    /\ SpecFire
    /\ WF_vars(ResetFire)
    /\ WF_vars(ExpiryFire)
    /\ WF_vars(Tick)
    /\ WF_vars(FireworkFrame)

\* The Experience and Fireworks components with their teardown.
NextTeardown ==
    \/ NextFire
    \/ Unmount

SpecTeardown == Init /\ [][NextTeardown]_vars

\* The mode signal and the per-frame interpolators.
NextAnim ==
    \/ Toggle
    \/ \E n \in 0 .. MaxBatch : UploadStartSeq(n)
    \/ \E u \in uploads : UploadResolve(u)
    \/ Frame

SpecAnim == Init /\ [][NextAnim]_vars

\* The App with uploads that may overlap.
NextApp ==
    \/ Toggle
    \/ \E n \in 0 .. MaxBatch : UploadStartOverlap(n)
    \/ \E u \in uploads : UploadResolve(u)

SpecApp == Init /\ [][NextApp]_vars

\* The upload of files with the processing of each image.
NextImage ==
    \/ \E n \in 1 .. MaxBatch : ImgUploadStart(n)
    \/ \E f \in DOMAIN imgBatch : \E ctx \in BOOLEAN : ImgOnload(f, ctx)
    \/ \E f \in DOMAIN imgBatch : ImgOnerror(f)
    \/ ImgAppend

SpecImage == Init /\ [][NextImage]_vars

\* The foliage generator applied to every count up to MaxCount.
NextGen == \E n \in 1 .. MaxCount : FoliageData(n)

SpecGen == Init /\ [][NextGen]_vars

\* The ornaments' per-frame rotation.
NextOrn ==
    \/ \E sp \in [1 .. OrnCount -> 0 .. MaxSpeed] : OrnamentData(sp)
    \/ OrnamentFrame

SpecOrn == Init /\ [][NextOrn]_vars

\* The controls of the UI overlay: mode button, upload input, music button.
NextUI ==
    \/ Toggle
    \/ \E n \in 0 .. MaxBatch : UploadStartSeq(n)
    \/ \E u \in uploads : UploadResolve(u)
    \/ \E ok \in BOOLEAN : toggle(ok)

SpecUI == Init /\ [][NextUI]_vars

\* ---------------------------------------------------------------- claims

\* C1: at most one of the 9 photo slots is rendered focused; focusedIdx is null
\* or one index in 0..8, and slot i is focused exactly when focusedIdx = i.
C1_SingleFocus ==
    /\ focusedIdx \in Slots \cup {NULL}
    /\ Cardinality({i \in Slots : slotFocused[i]}) <= 1
    /\ \A i \in Slots : slotFocused[i] <=> (focusedIdx = i)

\* Slot 3 is focused after two firework triggers and an upload.
C1_Witness ==
    /\ focusedIdx = 3
    /\ slotFocused[3]
    /\ idRef = 2 * BurstCount
    /\ Len(userPhotos) > 0

\* C2: a click on slot i clears the focus when slot i was focused, and otherwise
\* makes i the focused slot in that one step; neither the state before nor the
\* state after the click shows two slots focused.
C2_ClickTogglesFocus ==
    [][\A i \in Slots :
          handlePhotoClick(i) =>
              /\ (focusedIdx = i => focusedIdx' = NULL)
              /\ (focusedIdx # i => focusedIdx' = i)
              /\ Cardinality({j \in Slots : slotFocused[j]}) <= 1
              /\ Cardinality({j \in Slots : slotFocused'[j]}) <= 1
              /\ \A j \in Slots : slotFocused'[j] <=> (j = focusedIdx')]_vars

\* Slot 1 is focused by the second of two focusing clicks made while the
\* trigger flag of the first was still set.
C2_Witness ==
    /\ focusedIdx = 1
    /\ Len(resetTimers) = 2
    /\ fireworksActive
    /\ idRef = BurstCount

\* C3: the dismiss hit-target is mounted exactly while a slot is focused, and a
\* click on it clears the focus and changes neither mode, the photo list nor
\* the firework trigger.
C3_DismissTarget ==
    /\ [](catcherMounted <=> focusedIdx # NULL)
    /\ [][handleMissed =>
            /\ focusedIdx' = NULL
            /\ ~catcherMounted'
            /\ UNCHANGED <<mode, userPhotos, fireworksActive>>]_vars

\* The focus was set (the trigger flag is still up) and has been cleared again.
C3_Witness ==
    /\ focusedIdx = NULL
    /\ ~catcherMounted
    /\ fireworksActive
    /\ Len(resetTimers) = 1

\* Images of the uploads that have finished, counted (uploads run one at a time).
DoneImages ==
    IF uploads = {} THEN nextImg
    ELSE nextImg - Len((CHOOSE u \in uploads : TRUE).files)

\* C4: with uploads made one after another, the photo list is the last
\* min(9, total) images uploaded so far, in upload order.
C4_UploadFifo ==
    LET k == Min(MaxPhotos, DoneImages)
    IN  /\ Len(userPhotos) = k
        /\ \A j \in 1 .. k : userPhotos[j] = DoneImages - k + j

\* More than 9 images have been uploaded and the oldest one is gone.
C4_Witness ==
    /\ uploads = {}
    /\ nextImg = MaxPhotos + 1
    /\ Len(userPhotos) = MaxPhotos
    /\ userPhotos[1] = 2

\* C5: whenever an upload of at least one image appends its photos while mode
\* is 0, mode is 1 afterwards.
C5_UploadAdvancesMode ==
    [][\A u \in uploads :
          (UploadResolve(u) /\ Len(u.files) >= 1 /\ mode = 0) => mode' = 1]_vars

\* C6: the toggle control turns mode 0 into 1 and 1 into 0, and mode is always
\* 0 or 1.
C6_ToggleFlips ==
    /\ [](mode \in {0, 1})
    /\ [][Toggle => /\ (mode = 0 => mode' = 1)
                    /\ (mode = 1 => mode' = 0)]_vars

\* Mode 1 has been reached by the toggle alone: nothing was ever uploaded.
C6_Witness ==
    /\ mode = 1
    /\ nextImg = 0

\* One frame of one group: p over den becomes p2 over 100 * den.
FrameStepOk(p, p2, den, k) ==
    LET d == Abs(mode * den - p)
        d2 == Abs(mode * den * 100 - p2)
    IN  /\ p2 = p * 100 + (mode * den - p) * k
        /\ 0 <= p2 /\ p2 <= den * 100
        /\ d # 0 => /\ d2 = (100 - k) * d
                    /\ d2 < d * 100
                    /\ d2 # 0

C8_ModeChangeKeepsProgress ==
    [][mode' # mode =>
          /\ frames' = frames
          /\ progFoliage' = progFoliage
          /\ progOrnament' = progOrnament
          /\ progPhoto' = progPhoto]_vars

\* Mode went back to 0 in the middle of the transition toward 1.
C8_Witness ==
    /\ mode = 0
    /\ frames >= 1
    /\ 0 < progFoliage /\ progFoliage < Scale(frames)
    /\ 0 < progPhoto /\ progPhoto < Scale(frames)

\* C9: a burst is in the collection and visible as long as its age is below
\* the 1.5 s lifetime, whatever else happens; every frame hides the bursts older
\* than the lifetime; a hidden burst is never shown again.
C9_BurstVisibleForLifetime ==
    [][/\ \A b \in explosions :
             age[b] < Lifetime => (b \in explosions' /\ visible'[b])
       /\ FireworkFrame =>
             \A b \in explosions' : age'[b] > Lifetime => ~visible'[b]
       /\ \A b \in explosions \cap explosions' :
             ~visible[b] => ~visible'[b]]_vars

\* C10: every burst put into the collection is eventually removed from it.
C10_BurstEventuallyRemoved ==
    \A b \in 0 .. (BurstCount * MaxTriggers - 1) :
        [](b \in explosions => <>(b \notin explosions))

\* Bursts are spawned in this step.
Spawned == idRef' # idRef \/ ~(explosions' \subseteq explosions)

\* C11: bursts are spawned only by a step that takes the trigger flag from
\* false to true; a focusing click made while the flag is still true spawns
\* none and leaves the existing bursts alone, and no frame or clock step
\* spawns any.
C11_EdgeTriggered ==
    [][/\ Spawned => (~fireworksActive /\ fireworksActive')
       /\ (~fireworksActive /\ fireworksActive') =>
              /\ idRef' = idRef + BurstCount
              /\ explosions' = idRef .. (idRef' - 1)
       /\ \A i \in Slots :
              (handlePhotoClick(i) /\ fireworksActive /\ focusedIdx # i) =>
                  /\ fireworksActive'
                  /\ UNCHANGED <<explosions, idRef, age, visible, expiryTimer>>
       /\ (FireworkFrame \/ Tick) => ~Spawned]_vars

\* Slot 2 was focused by a second focusing click while the flag of the first
\* trigger was still set: only the first batch exists.
C11_Witness ==
    /\ focusedIdx = 2
    /\ fireworksActive
    /\ Len(resetTimers) = 2
    /\ explosions = 0 .. (BurstCount - 1)
    /\ idRef = BurstCount

\* C12: once the tree is unmounted no timer it scheduled is still pending,
\* so no timer callback runs after the unmount.
C12_TeardownCancelsTimers ==
    ~mounted => (resetTimers = << >> /\ expiryTimer = NoTimer)

\* C13: for every count N >= 1 the generator yields exactly N tree triples
\* whose y start at -Height/2, increase strictly with the index, and reach
\* Height/2 at the last index.
C13_TreeSpansHeight ==
    genCount >= 1 =>
        /\ Len(positionsTree) = genCount
        /\ positionsTree[1] = -(Height \div 2) * genCount
        /\ \A j \in 1 .. (genCount - 1) : positionsTree[j] < positionsTree[j + 1]
        /\ positionsTree[genCount] = (Height \div 2) * genCount

\* C14: every file resolves with a reference, and a file whose decoding or
\* drawing failed is in the photo list with its original object URL, which
\* is still live (not revoked) once the upload has appended it.
C14_FallbackUsable ==
    /\ \A f \in DOMAIN imgBatch : imgBatch[f] \in {"pending", "dataURL", "objectURL"}
    /\ \A j \in 1 .. Len(imgPhotos) :
           imgPhotos[j].kind = "objectURL" => imgPhotos[j].file \in imgLive

\* C15: the rotation angle written for an instance grows each frame by that
\* instance's own rotationSpeed, whatever the speeds of the other instances:
\* after f frames it is f times the instance's rotationSpeed.
C15_OwnRotationRate ==
    \A i \in 1 .. Len(ornData) : ornAngle[i] = ornFrames * ornData[i]

\* C16: with overlapping uploads the list never exceeds 9, and once
\* no upload is in flight it is the last min(9, total) images of all batches
\* in the order in which the uploads were started.
C16_OverlapStartOrder ==
    /\ Len(userPhotos) <= MaxPhotos
    /\ uploads = {} =>
           /\ Len(userPhotos) = Min(MaxPhotos, nextImg)
           /\ \A j \in 1 .. Len(userPhotos) :
                  userPhotos[j] = nextImg - Len(userPhotos) + j

\* C17: the playing flag is true exactly when the audio is playing, also
\* after a click whose play() failed, so that the next click plays again.
C17_FlagMatchesAudio == playing <=> audioPlaying

====
